---- MODULE Spec2Model ----
(***************************************************************************)
(* Shopify -> Fiken order-to-ledger reconciliation.                        *)
(*                                                                         *)
(* The module models                                                       *)
(*   - the batch migration scripts/migrate_shopify_to_fiken_external_      *)
(*     sales.js (class ShopifyFikenExternalSaleMigration) against a remote *)
(*     ledger whose calls may fail,                                        *)
(*   - the single-sale script scripts/create_external_sale.js,             *)
(*   - the webhook endpoint POST /webhooks/orders-paid.                    *)
(*                                                                         *)
(* Money.  Shopify prices are decimal strings with two decimals; a price   *)
(* is the record [kr, ore] of its digits before and after the point, and   *)
(* all ledger amounts are integers in minor units (ore).  VAT rates are in *)
(* percent and taken from rates that are exact binary fractions (0, 0.25,  *)
(* 0.5, 1.0), for which the script's floating point division and           *)
(* Math.round agree with exact arithmetic.  The fee percentage is in       *)
(* quarters (feePercentQ = 10 is PAYMENT_FEE_PERCENT=2.5), exact as well.  *)
(***************************************************************************)
EXTENDS Integers, Sequences, FiniteSets, TLC

VARIABLES
    cfg,            \* options and environment of one migration process
    files,          \* the order files of the backup directory, in sorted order
    run,            \* number of the current batch run (0: none started)
    orders,         \* the paid orders loaded by the current run
    index,          \* loop index of run() (1-based)
    pc,             \* position of the batch process
    loc,            \* local variables of the migrateOrder call in progress
    customerCache,  \* this.customerCache: customer key -> customer
    contacts,       \* remote ledger: contacts
    sales,          \* remote ledger: sales (postings)
    calls,          \* history: remote calls issued by the migrateOrder call in progress
    outcomes,       \* history: how each migrateOrder call ended
    faults,         \* number of remote failures and crashes so far
    cIn, cOut, cPc, \* calculator under test: input, output, position
    ss,             \* single-sale script
    web,            \* webhook endpoint: request, response, queue
    par,            \* two workers that process deliveries, partitioned by order key
    gw,             \* ledger gateway: one call of FikenAPI
    ex              \* extractOrderId: the payload and the id read from it

migVars  == <<cfg, files, run, orders, index, pc, loc, customerCache,
              contacts, sales, calls, outcomes, faults>>
calcVars == <<cIn, cOut, cPc>>
vars     == <<cfg, files, run, orders, index, pc, loc, customerCache,
              contacts, sales, calls, outcomes, faults, cIn, cOut, cPc, ss, web,
              par, gw, ex>>

----------------------------------------------------------------------------
(* Bounds *)

MaxItems == 2
MaxOrders == 2
MaxRuns == 2
MaxFaults == 2

----------------------------------------------------------------------------
(* Values *)

\* Two-decimal price strings: "0.00", "0.01", "0.02", "0.03", "1.04", "12.99".
PriceValues ==
    { [kr |-> 0, ore |-> 0], [kr |-> 0, ore |-> 1], [kr |-> 0, ore |-> 2],
      [kr |-> 0, ore |-> 3], [kr |-> 1, ore |-> 4], [kr |-> 12, ore |-> 99] }

\* item.quantity; 0 stands for an absent or zero quantity.
Quantities == {0, 1, 3}

\* VAT_RATE in percent.
VatRates == {0, 25, 50, 100}

----------------------------------------------------------------------------
(* Arithmetic of the scripts *)

\* Math.round(a / b) for b > 0: the nearest integer, halves towards +infinity.
MathRound(a, b) == (2 * a + b) \div (2 * b)

\* Math.abs
MathAbs(x) == IF x < 0 THEN -x ELSE x

\* An absent price (undefined in the order file).
NoPrice == [kr |-> -1, ore |-> 0]

\* Math.round(toNumber(value) * 100): the ore of a two-decimal price string;
\* toNumber parses an absent value to 0.
toOre(p) == IF p.kr < 0 THEN 0 ELSE p.kr * 100 + p.ore

\* Math.round(grossOre / (1 + vatRate))
netOfGross(grossOre, vatRate) == MathRound(grossOre * 100, 100 + vatRate)

\* One product line of buildSaleLines.
productLine_vatOnLine(item, vatRate) ==
    LET quantity == IF item.quantity = 0 THEN 1 ELSE item.quantity
        grossPerUnitOre == toOre(item.price)
        netPerUnitOre == netOfGross(grossPerUnitOre, vatRate)
        lineNet == netPerUnitOre * quantity
        lineVat == grossPerUnitOre - netPerUnitOre
    IN [account |-> "sales", netPrice |-> lineNet, netAmount |-> lineNet,
        vat |-> lineVat, vatAmount |-> lineVat, quantity |-> 1]
productLine(item, vatRate) ==
    LET quantity == IF item.quantity = 0 THEN 1 ELSE item.quantity
        grossPerUnitOre == toOre(item.price)
        netPerUnitOre == netOfGross(grossPerUnitOre, vatRate)
        vatPerUnitOre == grossPerUnitOre - netPerUnitOre
        lineNet == netPerUnitOre * quantity
        lineVat == vatPerUnitOre * quantity
    IN [account |-> "sales", netPrice |-> lineNet, netAmount |-> lineNet,
        vat |-> lineVat, vatAmount |-> lineVat, quantity |-> 1]

\* One shipping line of buildSaleLines (for a price greater than zero).
shippingLine(price, vatRate) ==
    LET grossOre == toOre(price)
        netOre == netOfGross(grossOre, vatRate)
        vatOre == grossOre - netOre
    IN [account |-> "shipping", netPrice |-> netOre, netAmount |-> netOre,
        vat |-> vatOre, vatAmount |-> vatOre, quantity |-> 1]

\* buildSaleLines(order): the product lines, then the shipping lines whose
\* price is greater than zero.
buildSaleLines(order, vatRate) ==
    LET billable == SelectSeq(order.shipping_lines, LAMBDA s : toOre(s) > 0)
    IN [i \in 1..Len(order.line_items) |-> productLine(order.line_items[i], vatRate)]
       \o [i \in 1..Len(billable) |-> shippingLine(billable[i], vatRate)]

RECURSIVE SumNet(_)
SumNet(lines) == IF lines = <<>> THEN 0 ELSE Head(lines).netAmount + SumNet(Tail(lines))

RECURSIVE SumVat(_)
SumVat(lines) == IF lines = <<>> THEN 0 ELSE Head(lines).vatAmount + SumVat(Tail(lines))

\* calculateTotals(lines)
calculateTotals(lines) ==
    LET net == SumNet(lines)
        vat == SumVat(lines)
    IN [net |-> net, vat |-> vat, gross |-> net + vat]

\* computeFeeAmount(gross) with this.feeAmountFixed = feeFixed and
\* this.feePercent = feePercentQ / 4; the percentage multiplies the gross as it
\* stands (gross * feePercent).
computeFeeAmount_keepsFee(gross, feeFixed, feePercentQ) ==
    feeFixed + (IF feePercentQ > 0 THEN MathRound(gross * feePercentQ, 4) ELSE 0)
computeFeeAmount(gross, feeFixed, feePercentQ) ==
    LET fee == feeFixed + (IF feePercentQ > 0 THEN MathRound(gross * feePercentQ, 4) ELSE 0)
    IN IF fee >= gross THEN 0 ELSE fee

----------------------------------------------------------------------------
(* Orders and configuration of the batch migration *)

\* customer.email of an order; "" when the order has none.
Emails == {"", "kari@x.no", "Kari@X.no"}

\* String.prototype.toLowerCase on the e-mail addresses of the model.
toLowerCase(s) == IF s = "Kari@X.no" THEN "kari@x.no" ELSE s

OrderIds == {1, 2}

\* order.order_number; 0 when the order file has none.
OrderNumbers == {0, 2}

Price(kr, ore) == [kr |-> kr, ore |-> ore]
Item(kr, ore, q) == [price |-> Price(kr, ore), quantity |-> q]

\* line_items, shipping_lines and total_price of the order files of the model.
BodyPlain    == [line_items |-> <<Item(1, 4, 1)>>, shipping_lines |-> <<>>,
                 total_price |-> Price(1, 4)]
BodyShipped  == [line_items |-> <<Item(12, 99, 3)>>, shipping_lines |-> <<Price(0, 3)>>,
                 total_price |-> NoPrice]
BodyDiscount == [line_items |-> <<Item(12, 99, 1)>>, shipping_lines |-> <<>>,
                 total_price |-> Price(1, 4)]
BodyEmpty    == [line_items |-> <<>>, shipping_lines |-> <<Price(0, 0)>>,
                 total_price |-> Price(0, 0)]
BodyFree     == [line_items |-> <<Item(0, 0, 1)>>, shipping_lines |-> <<>>,
                 total_price |-> Price(0, 0)]
Bodies == {BodyPlain, BodyShipped, BodyDiscount, BodyEmpty, BodyFree}

MkOrder(id, number, email, body, status) ==
    [id |-> id, order_number |-> number, email |-> email,
     line_items |-> body.line_items, shipping_lines |-> body.shipping_lines,
     total_price |-> body.total_price, financial_status |-> status]

\* Orders that differ in identity (id, order_number, e-mail).
IdentityOrders ==
    { MkOrder(id, n, e, BodyPlain, "paid") : id \in OrderIds, n \in OrderNumbers, e \in Emails }
\* Orders that differ in their amounts.
MoneyOrders == { MkOrder(1, 0, "kari@x.no", b, "paid") : b \in Bodies }
\* An order that is not paid; its id is no paid order's id.
UnpaidOrders == { MkOrder(3, 0, "kari@x.no", BodyPlain, "pending") }

SeqsUpTo(S, n) == UNION { [1..k -> S] : k \in 1..n }

\* Options and environment: --dry-run, --limit (0: none), VAT_RATE,
\* PAYMENT_FEE_AMOUNT_ORE, PAYMENT_FEE_PERCENT (in quarters).
MkConfig(dry, limit, fixed, pctQ) ==
    [dryRun |-> dry, limit |-> limit, vatRate |-> 25,
     feeFixed |-> fixed, feePercentQ |-> pctQ]
DefaultConfig == MkConfig(FALSE, 0, 0, 0)
Configs == { DefaultConfig, MkConfig(TRUE, 0, 0, 0), MkConfig(FALSE, 1, 0, 0),
             MkConfig(FALSE, 0, 30, 0), MkConfig(FALSE, 0, -5, 0),
             MkConfig(FALSE, 0, 0, 1), MkConfig(FALSE, 0, 0, 10),
             MkConfig(FALSE, 5, 0, 0) }

NullOrder == MkOrder(0, 0, "", BodyEmpty, "none")
\* A customer: the contact's id and e-mail; createdBy records the run and the
\* order whose createCustomer call made the contact.
NullCustomer == [contactId |-> 0, email |-> "", createdBy |-> [run |-> 0, orderId |-> 0]]
NullTotals == [net |-> 0, vat |-> 0, gross |-> 0]
NoLoc == [order |-> NullOrder, saleNumber |-> 0, customer |-> NullCustomer,
          lines |-> <<>>, totals |-> NullTotals, shopifyGross |-> 0,
          mismatch |-> FALSE, existingSale |-> 0, saleId |-> 0, feeAmount |-> 0, bankPaymentAmount |-> 0]

----------------------------------------------------------------------------
(* The batch migration: run() and migrateOrder(), one action per remote call *)

others == <<cIn, cOut, cPc, ss, web, par, gw, ex>>

Paid(order) == order.financial_status = "paid"

\* loadShopifyOrders(): the order files whose financial_status is paid.
loadShopifyOrders_all(fs) == fs
loadShopifyOrders(fs) == SelectSeq(fs, Paid)

\* The loop bound of run().
Limit_ignored(n) == n
Limit(n) == IF cfg.limit > 0 THEN (IF cfg.limit < n THEN cfg.limit ELSE n) ELSE n

\* order.order_number || order.id: the number of the business key
\* `#${...}` and of the receipt's file name.
saleNumberOf(order) == IF order.order_number # 0 THEN order.order_number ELSE order.id

\* getCustomerKey(order): the lower-cased e-mail, or order-<id>.
getCustomerKey_caseSensitive(order) ==
    IF order.email # ""
    THEN [email |-> order.email, orderId |-> 0]
    ELSE [email |-> "", orderId |-> order.id]
getCustomerKey(order) ==
    IF order.email # ""
    THEN [email |-> toLowerCase(order.email), orderId |-> 0]
    ELSE [email |-> "", orderId |-> order.id]

\* customers.find(entry => entry.email?.toLowerCase() === email.toLowerCase()) || null:
\* the position of the first match in the contact list, 0 for none.
findCustomer_caseSensitive(list, email) ==
    LET hits == { i \in 1..Len(list) : list[i].email # "" /\ list[i].email = email }
    IN IF hits = {} THEN 0 ELSE CHOOSE i \in hits : \A j \in hits : i <= j
findCustomer(list, email) ==
    LET hits == { i \in 1..Len(list) :
                    list[i].email # "" /\ toLowerCase(list[i].email) = toLowerCase(email) }
    IN IF hits = {} THEN 0 ELSE CHOOSE i \in hits : \A j \in hits : i <= j

\* GET /sales?saleNumber=...&pageSize=1: the first sale with the number, 0 for none.
firstSale(number) ==
    LET hits == { i \in 1..Len(sales) : sales[i].saleNumber = number }
    IN IF hits = {} THEN 0 ELSE CHOOSE i \in hits : \A j \in hits : i <= j

Call(op, res) == [op |-> op, res |-> res]

Outcome(order, result) ==
    [run |-> run, index |-> index, id |-> order.id,
     saleNumber |-> saleNumberOf(order), result |-> result]

\* migrateOrder returned or threw: run() goes on with the next order.
Finish_stopsOnFailure(order, result) ==
    /\ outcomes' = Append(outcomes, Outcome(order, result))
    /\ index' = index + 1
    /\ pc' = IF result = "failed" THEN "done" ELSE "loop"
Finish(order, result) ==
    /\ outcomes' = Append(outcomes, Outcome(order, result))
    /\ index' = index + 1
    /\ pc' = "loop"

\* The position after the dry-run check of migrateOrder.
afterBuild(dryRun) == IF dryRun THEN "return" ELSE "findSale"

\* migrateOrder's `if (!lines.length)`: the order has no billable lines.
noLines_never(lines) == FALSE
noLines(lines) == Len(lines) = 0

\* migrateOrder from the resolved customer to the search of the sale: the
\* customerId check, the lines and totals, the comparison with Shopify's total
\* and the dry-run return.
Continue(base, customer) ==
    LET lines == buildSaleLines(base.order, cfg.vatRate)
        totals == calculateTotals(lines)
        shopifyGross == IF base.order.total_price.kr >= 0
                        THEN toOre(base.order.total_price) ELSE totals.gross
        built == [base EXCEPT !.customer = customer, !.lines = lines, !.totals = totals,
                              !.shopifyGross = shopifyGross,
                              !.mismatch = MathAbs(shopifyGross - totals.gross) > 2]
    IN IF customer.contactId = 0
       THEN /\ loc' = [base EXCEPT !.customer = customer]
            /\ Finish(base.order, "noCustomerId")
       ELSE IF noLines(lines)
       THEN /\ loc' = [base EXCEPT !.customer = customer, !.lines = lines]
            /\ Finish(base.order, "noBillableLines")
       ELSE IF afterBuild(cfg.dryRun) = "return"
       THEN /\ loc' = built
            /\ Finish(base.order, "dryRun")
       ELSE /\ loc' = built
            /\ pc' = "findSale"
            /\ UNCHANGED <<outcomes, index>>

LoadOrders ==
    /\ pc = "start"
    /\ orders' = loadShopifyOrders(files)
    /\ index' = 1
    /\ pc' = "loop"
    /\ UNCHANGED <<cfg, files, run, loc, customerCache, contacts, sales, calls,
                   outcomes, faults, others>>

\* The loop of run() takes the next order; migrateOrder runs up to its first
\* remote call (the cache lookup of getOrCreateCustomer is local).
StartOrder ==
    /\ pc = "loop"
    /\ index <= Limit(Len(orders))
    /\ LET order == orders[index]
           base == [NoLoc EXCEPT !.order = order, !.saleNumber = saleNumberOf(order)]
           key == getCustomerKey(order)
       IN /\ calls' = <<>>
          /\ IF key \in DOMAIN customerCache
             THEN Continue(base, customerCache[key])
             ELSE /\ loc' = base
                  /\ pc' = IF order.email # "" THEN "getCustomers" ELSE "createCustomer"
                  /\ UNCHANGED <<outcomes, index>>
    /\ UNCHANGED <<cfg, files, run, orders, customerCache, contacts, sales, faults, others>>

\* this.fiken.getCustomers answers: the customer is found and cached, or is
\* to be created.
GetCustomersOk ==
    /\ pc = "getCustomers"
    /\ LET hit == findCustomer(contacts, loc.order.email)
       IN IF hit # 0
          THEN /\ calls' = Append(calls, Call("getCustomers", "found"))
               /\ customerCache' = (getCustomerKey(loc.order) :> contacts[hit]) @@ customerCache
               /\ Continue(loc, contacts[hit])
          ELSE /\ calls' = Append(calls, Call("getCustomers", "notfound"))
               /\ pc' = "createCustomer"
               /\ UNCHANGED <<loc, customerCache, outcomes, index>>
    /\ UNCHANGED <<cfg, files, run, orders, contacts, sales, faults, others>>

\* this.fiken.getCustomers throws: logged, the customer is to be created.
GetCustomersFail_aborts ==
    /\ pc = "getCustomers"
    /\ faults < MaxFaults
    /\ faults' = faults + 1
    /\ calls' = Append(calls, Call("getCustomers", "fail"))
    /\ Finish(loc.order, "failed")
    /\ UNCHANGED <<cfg, files, run, orders, loc, customerCache, contacts, sales, others>>
GetCustomersFail ==
    /\ pc = "getCustomers"
    /\ faults < MaxFaults
    /\ faults' = faults + 1
    /\ calls' = Append(calls, Call("getCustomers", "fail"))
    /\ pc' = "createCustomer"
    /\ UNCHANGED <<cfg, files, run, orders, index, loc, customerCache, contacts, sales,
                   outcomes, others>>

\* this.fiken.createCustomer answers with the contact's id in the Location header.
CreateCustomerOk ==
    /\ pc = "createCustomer"
    /\ LET customer == [contactId |-> Len(contacts) + 1, email |-> loc.order.email,
                        createdBy |-> [run |-> run, orderId |-> loc.order.id]]
       IN /\ contacts' = Append(contacts, customer)
          /\ calls' = Append(calls, Call("createCustomer", "ok"))
          /\ customerCache' = (getCustomerKey(loc.order) :> customer) @@ customerCache
          /\ Continue(loc, customer)
    /\ UNCHANGED <<cfg, files, run, orders, sales, faults, others>>

\* this.fiken.createCustomer answers without a Location header: contactId is null.
CreateCustomerNoId ==
    /\ pc = "createCustomer"
    /\ faults < MaxFaults
    /\ faults' = faults + 1
    /\ LET customer == [contactId |-> 0, email |-> loc.order.email,
                        createdBy |-> [run |-> run, orderId |-> loc.order.id]]
       IN /\ contacts' = Append(contacts, [customer EXCEPT !.contactId = Len(contacts) + 1])
          /\ calls' = Append(calls, Call("createCustomer", "noid"))
          /\ customerCache' = (getCustomerKey(loc.order) :> customer) @@ customerCache
          /\ Continue(loc, customer)
    /\ UNCHANGED <<cfg, files, run, orders, sales, others>>

\* this.fiken.createCustomer throws: migrateOrder throws.
CreateCustomerFail ==
    /\ pc = "createCustomer"
    /\ faults < MaxFaults
    /\ faults' = faults + 1
    /\ calls' = Append(calls, Call("createCustomer", "fail"))
    /\ Finish(loc.order, "failed")
    /\ UNCHANGED <<cfg, files, run, orders, loc, customerCache, contacts, sales, others>>

\* migrateOrder after findSaleByNumber: an existing sale is never created
\* again; its receipt is attached when it has none.
afterSearch_alwaysCreate(existing, attached) == "createSale"
afterSearch_alwaysAttach(existing, attached) ==
    IF existing # 0 THEN "attachExisting" ELSE "createSale"
afterSearch(existing, attached) ==
    IF existing # 0
    THEN (IF attached THEN "return" ELSE "attachExisting")
    ELSE "createSale"

\* existingSale.saleAttachments has the receipt shopify-order-<number>.pdf.
hasReceipt(saleId, number) == number \in sales[saleId].attachments

\* bankPaymentAmount of migrateOrder.
bankPaymentOf(gross, feeAmount) == IF feeAmount > 0 THEN gross - feeAmount ELSE gross

\* The first payment to register after createSale, if any.
afterCreate(bank, fee) ==
    IF bank > 0 THEN "bankPayment" ELSE IF fee > 0 THEN "feePayment" ELSE "attach"

\* The step after the bank payment.
afterBank(fee) == IF fee > 0 THEN "feePayment" ELSE "attach"

Searched(existing, res) ==
    /\ calls' = Append(calls, Call("findSale", res))
    /\ loc' = [loc EXCEPT !.existingSale = existing]
    /\ LET next == afterSearch(existing,
                               IF existing # 0 THEN hasReceipt(existing, loc.saleNumber)
                               ELSE FALSE)
       IN IF next = "return"
          THEN Finish(loc.order, "skipped")
          ELSE /\ pc' = next
               /\ UNCHANGED <<outcomes, index>>

\* findSaleByNumber: the search answers.
FindSaleOk ==
    /\ pc = "findSale"
    /\ LET existing == firstSale(loc.saleNumber)
       IN Searched(existing, IF existing # 0 THEN "found" ELSE "notfound")
    /\ UNCHANGED <<cfg, files, run, orders, customerCache, contacts, sales, faults, others>>

\* findSaleByNumber: the search throws; the error is caught and null returned.
FindSaleFail ==
    /\ pc = "findSale"
    /\ faults < MaxFaults
    /\ faults' = faults + 1
    /\ Searched(0, "fail")
    /\ UNCHANGED <<cfg, files, run, orders, customerCache, contacts, sales, others>>

\* attachFileToSale on the existing sale answers.
AttachExistingOk ==
    /\ pc = "attachExisting"
    /\ sales' = [sales EXCEPT ![loc.existingSale].attachments = @ \cup {loc.saleNumber}]
    /\ calls' = Append(calls, Call("attach", "ok"))
    /\ Finish(loc.order, "skipped")
    /\ UNCHANGED <<cfg, files, run, orders, loc, customerCache, contacts, faults, others>>

\* attachFileToSale on the existing sale throws: logged.
AttachExistingFail ==
    /\ pc = "attachExisting"
    /\ faults < MaxFaults
    /\ faults' = faults + 1
    /\ calls' = Append(calls, Call("attach", "fail"))
    /\ Finish(loc.order, "skipped")
    /\ UNCHANGED <<cfg, files, run, orders, loc, customerCache, contacts, sales, others>>

\* salePayload.lines of migrateOrder: lines.map copies the account and the
\* amounts of every built line into the payload that createSale posts.
salePayloadLines_netOnly(lines) ==
    [i \in 1..Len(lines) |->
        [account |-> lines[i].account, netPrice |-> lines[i].netPrice,
         netAmount |-> lines[i].netAmount, vat |-> 0, vatAmount |-> 0,
         quantity |-> lines[i].quantity]]
salePayloadLines(lines) ==
    [i \in 1..Len(lines) |->
        [account |-> lines[i].account, netPrice |-> lines[i].netPrice,
         netAmount |-> lines[i].netAmount, vat |-> lines[i].vat,
         vatAmount |-> lines[i].vatAmount, quantity |-> lines[i].quantity]]

\* this.fiken.createSale answers: the sale exists remotely; the fee and the
\* bank payment are computed.
CreateSaleOk ==
    /\ pc = "createSale"
    /\ LET fee == computeFeeAmount(loc.totals.gross, cfg.feeFixed, cfg.feePercentQ)
           bank == bankPaymentOf(loc.totals.gross, fee)
       IN /\ sales' = Append(sales, [saleNumber |-> loc.saleNumber,
                                     customerId |-> loc.customer.contactId,
                                     orderId |-> loc.order.id,
                                     lines |-> salePayloadLines(loc.lines),
                                     payments |-> <<>>, attachments |-> {}])
          /\ loc' = [loc EXCEPT !.saleId = Len(sales) + 1, !.feeAmount = fee,
                                !.bankPaymentAmount = bank]
          /\ pc' = afterCreate(bank, fee)
    /\ calls' = Append(calls, Call("createSale", "ok"))
    /\ UNCHANGED <<cfg, files, run, orders, index, customerCache, contacts, outcomes,
                   faults, others>>

\* this.fiken.createSale throws: migrateOrder throws.
CreateSaleFail ==
    /\ pc = "createSale"
    /\ faults < MaxFaults
    /\ faults' = faults + 1
    /\ calls' = Append(calls, Call("createSale", "fail"))
    /\ Finish(loc.order, "failed")
    /\ UNCHANGED <<cfg, files, run, orders, loc, customerCache, contacts, sales, others>>

Payment(account, amount) == [account |-> account, amount |-> amount]

\* addSalePayment on the bank account answers.
BankPaymentOk ==
    /\ pc = "bankPayment"
    /\ sales' = [sales EXCEPT ![loc.saleId].payments =
                                  Append(@, Payment("bank", loc.bankPaymentAmount))]
    /\ calls' = Append(calls, Call("bankPayment", "ok"))
    /\ pc' = afterBank(loc.feeAmount)
    /\ UNCHANGED <<cfg, files, run, orders, index, loc, customerCache, contacts,
                   outcomes, faults, others>>

\* addSalePayment on the bank account throws: migrateOrder throws.
BankPaymentFail ==
    /\ pc = "bankPayment"
    /\ faults < MaxFaults
    /\ faults' = faults + 1
    /\ calls' = Append(calls, Call("bankPayment", "fail"))
    /\ Finish(loc.order, "failed")
    /\ UNCHANGED <<cfg, files, run, orders, loc, customerCache, contacts, sales, others>>

\* addSalePayment on the fee account answers.
FeePaymentOk ==
    /\ pc = "feePayment"
    /\ sales' = [sales EXCEPT ![loc.saleId].payments =
                                  Append(@, Payment("fee", loc.feeAmount))]
    /\ calls' = Append(calls, Call("feePayment", "ok"))
    /\ pc' = "attach"
    /\ UNCHANGED <<cfg, files, run, orders, index, loc, customerCache, contacts,
                   outcomes, faults, others>>

\* addSalePayment on the fee account throws: migrateOrder throws.
FeePaymentFail ==
    /\ pc = "feePayment"
    /\ faults < MaxFaults
    /\ faults' = faults + 1
    /\ calls' = Append(calls, Call("feePayment", "fail"))
    /\ Finish(loc.order, "failed")
    /\ UNCHANGED <<cfg, files, run, orders, loc, customerCache, contacts, sales, others>>

\* attachFileToSale on the new sale answers: migrateOrder returns.
AttachOk ==
    /\ pc = "attach"
    /\ sales' = [sales EXCEPT ![loc.saleId].attachments = @ \cup {loc.saleNumber}]
    /\ calls' = Append(calls, Call("attach", "ok"))
    /\ Finish(loc.order, "ok")
    /\ UNCHANGED <<cfg, files, run, orders, loc, customerCache, contacts, faults, others>>

\* attachFileToSale on the new sale throws: logged, migrateOrder returns.
AttachFail ==
    /\ pc = "attach"
    /\ faults < MaxFaults
    /\ faults' = faults + 1
    /\ calls' = Append(calls, Call("attach", "fail"))
    /\ Finish(loc.order, "ok")
    /\ UNCHANGED <<cfg, files, run, orders, loc, customerCache, contacts, sales, others>>

\* The positions at which migrateOrder waits for the remote ledger.
AwaitPcs == {"getCustomers", "createCustomer", "findSale", "attachExisting",
             "createSale", "bankPayment", "feePayment", "attach"}

\* The process is stopped while an order is in flight.
Crash ==
    /\ pc \in AwaitPcs
    /\ faults < MaxFaults
    /\ faults' = faults + 1
    /\ outcomes' = Append(outcomes, Outcome(loc.order, "interrupted"))
    /\ pc' = "done"
    /\ UNCHANGED <<cfg, files, run, orders, index, loc, customerCache, contacts, sales,
                   calls, others>>

\* The loop of run() ends.
EndRun ==
    /\ pc = "loop"
    /\ index > Limit(Len(orders))
    /\ pc' = "done"
    /\ UNCHANGED <<cfg, files, run, orders, index, loc, customerCache, contacts, sales,
                   calls, outcomes, faults, others>>

\* The script is started again on the same order files: a new process with an
\* empty customer cache, against the same remote ledger.
NewRun ==
    /\ pc = "done"
    /\ run < MaxRuns
    /\ run' = run + 1
    /\ pc' = "start"
    /\ customerCache' = <<>>
    /\ orders' = <<>>
    /\ index' = 1
    /\ loc' = NoLoc
    /\ calls' = <<>>
    /\ UNCHANGED <<cfg, files, contacts, sales, outcomes, faults, others>>

----------------------------------------------------------------------------
(* The calculator on its own: buildSaleLines and calculateTotals *)

MaxShipping == 1

SeqsFromZero(S, n) == UNION { [1..k -> S] : k \in 0..n }

CalcInputs ==
    [line_items : SeqsFromZero([price : PriceValues, quantity : Quantities], MaxItems),
     shipping_lines : SeqsFromZero(PriceValues, MaxShipping),
     vatRate : VatRates]

CalcBuildLines ==
    /\ cPc = "input"
    /\ cOut' = [cOut EXCEPT !.lines = buildSaleLines(cIn, cIn.vatRate)]
    /\ cPc' = "lines"
    /\ UNCHANGED <<cIn, migVars, ss, web, par, gw, ex>>

CalcTotals ==
    /\ cPc = "lines"
    /\ cOut' = [cOut EXCEPT !.totals = calculateTotals(cOut.lines)]
    /\ cPc' = "totals"
    /\ UNCHANGED <<cIn, migVars, ss, web, par, gw, ex>>

----------------------------------------------------------------------------
(* The single-sale script scripts/create_external_sale.js: main() *)

\* EXTERNAL_SALE_NET and EXTERNAL_SALE_FEE: the defaults '8' and '2' and the
\* prices of the model.
SingleAmounts == PriceValues \cup {Price(8, 0), Price(2, 0)}

\* bankPaymentAmount of main().
singleBankPayment(gross, fee) ==
    IF fee > 0 THEN (IF gross - fee > 0 THEN gross - fee ELSE 0) ELSE gross

SsInit ==
    \E net \in SingleAmounts, fee \in SingleAmounts, file \in BOOLEAN :
        LET productNet == toOre(net)
            vatAmount == MathRound(productNet * 25, 100)
        IN ss = [pc |-> "createSale", productNet |-> productNet,
                 feeAmount |-> toOre(fee), vatAmount |-> vatAmount,
                 grossAmount |-> productNet + vatAmount, bankPaymentAmount |-> 0,
                 payments |-> <<>>, orderFile |-> file, attached |-> FALSE]

SsStep(next) == /\ ss' = next
                /\ UNCHANGED <<migVars, calcVars, web, par, gw, ex>>

\* fiken.createSale answers; the bank payment is computed.
SsCreateSaleOk ==
    /\ ss.pc = "createSale"
    /\ LET bank == singleBankPayment(ss.grossAmount, ss.feeAmount)
       IN SsStep([ss EXCEPT !.bankPaymentAmount = bank,
                            !.pc = IF bank > 0 THEN "bankPayment"
                                   ELSE IF ss.feeAmount > 0 THEN "feePayment"
                                   ELSE "getSale"])

\* A call of main() throws: the script exits with status 1.
SsCallFails ==
    /\ ss.pc \in {"createSale", "bankPayment", "feePayment", "getSale"}
    /\ SsStep([ss EXCEPT !.pc = "exit1"])

SsBankPaymentOk ==
    /\ ss.pc = "bankPayment"
    /\ SsStep([ss EXCEPT !.payments = Append(@, Payment("bank", ss.bankPaymentAmount)),
                         !.pc = IF ss.feeAmount > 0 THEN "feePayment" ELSE "getSale"])

SsFeePaymentOk ==
    /\ ss.pc = "feePayment"
    /\ SsStep([ss EXCEPT !.payments = Append(@, Payment("fee", ss.feeAmount)),
                         !.pc = "getSale"])

\* The final GET of the sale answers; the order file, if any, is attached next.
SsGetSaleOk ==
    /\ ss.pc = "getSale"
    /\ SsStep([ss EXCEPT !.pc = IF ss.orderFile THEN "attach" ELSE "done"])

\* attachFileToSale answers or throws (logged).
SsAttach ==
    /\ ss.pc = "attach"
    /\ \E ok \in BOOLEAN : SsStep([ss EXCEPT !.attached = ok, !.pc = "done"])

----------------------------------------------------------------------------
(* The webhook endpoint POST /webhooks/orders-paid *)

MaxRequests == 2

\* Length of a base64 SHA-256 digest.
DigestLen == 44

\* SHOPIFY_WEBHOOK_SECRET of the server ("" when not configured) and the keys
\* a sender may sign with.
ServerSecrets == {"", "s3cret"}
SenderSecrets == {"", "s3cret", "other"}
RawBodies == {1, 2}

\* crypto.createHmac('sha256', secret).update(rawBody).digest('base64'): a
\* string of DigestLen characters that differs for different keys or bodies.
Hmac(secret, rawBody) == [len |-> DigestLen, bytes |-> <<secret, rawBody>>]

\* Values of the x-shopify-hmac-sha256 header: absent (''), a digest under some
\* key of some body, other text of a digest's length, other text of another length.
Signatures ==
    { [len |-> 0, bytes |-> <<"", 0>>] }
    \cup { Hmac(k, b) : k \in SenderSecrets, b \in RawBodies }
    \cup { [len |-> DigestLen, bytes |-> <<"junk", 0>>], [len |-> 7, bytes |-> <<"junk", 0>>] }

\* verifyShopifySignature(req, webhookSecret)
verifyShopifySignature_lengthOnly(req, webhookSecret) ==
    IF webhookSecret = "" THEN FALSE
    ELSE Hmac(webhookSecret, req.rawBody).len = req.signature.len
verifyShopifySignature(req, webhookSecret) ==
    IF webhookSecret = "" THEN FALSE
    ELSE LET generated == Hmac(webhookSecret, req.rawBody)
         IN IF generated.len # req.signature.len THEN FALSE
            ELSE generated.bytes = req.signature.bytes

\* A field of the payload: absent, a number, a text without digits, or a text
\* whose digits read n (such as gid://shopify/Order/4).
Absent == [kind |-> "absent", n |-> 0]
Num(n) == [kind |-> "num", n |-> n]
Text == [kind |-> "text", n |-> 0]
Digits(n) == [kind |-> "digits", n |-> n]

\* Boolean(value)
Truthy(v) == v.kind \in {"text", "digits"} \/ (v.kind = "num" /\ v.n # 0)

\* parseInt(String(value).replace(/[^0-9]/g, ''), 10) is a number.
HasDigits(v) == v.kind \in {"num", "digits"}

\* extractOrderId(payload): the number of the first truthy candidate that has
\* digits; -1 stands for null.
extractOrderId_lastWins(payload) ==
    LET candidates == SelectSeq(<<payload.admin_graphql_api_id, payload.order,
                                  payload.order_id, payload.id>>, Truthy)
        usable == SelectSeq(candidates, HasDigits)
    IN IF usable = <<>> THEN -1 ELSE Head(usable).n
extractOrderId(payload) ==
    LET candidates == SelectSeq(<<payload.id, payload.order_id, payload.order,
                                  payload.admin_graphql_api_id>>, Truthy)
        usable == SelectSeq(candidates, HasDigits)
    IN IF usable = <<>> THEN -1 ELSE Head(usable).n

\* The payloads of the model: payload.id, payload.order_id, payload.order.id
\* and payload.admin_graphql_api_id.
Payloads == [id : {Absent, Num(0), Num(1), Digits(0)},
             order_id : {Absent, Num(2)},
             order : {Absent, Text, Num(3)},
             admin_graphql_api_id : {Absent, Digits(4), Text}]

NullPayload == [id |-> Absent, order_id |-> Absent, order |-> Absent,
                admin_graphql_api_id |-> Absent]

\* extractOrderId is called with a payload and returns.
ExtractOrderId ==
    /\ ex.pc = "called"
    /\ ex' = [ex EXCEPT !.pc = "returned", !.orderId = extractOrderId(ex.payload)]
    /\ UNCHANGED <<migVars, calcVars, ss, web, par, gw>>

\* A request: the raw body, the x-shopify-hmac-sha256 header and the parsed body.
Requests == [rawBody : RawBodies, signature : Signatures, payload : Payloads]

\* What the endpoint's state keeps of the last request.
Received(req) == [rawBody |-> req.rawBody, signature |-> req.signature]
NullRequest == [rawBody |-> 1, signature |-> [len |-> 0, bytes |-> <<"", 0>>]]

\* enqueueOrder(orderId) of lib/db: the order key is queued once.
enqueueOrder(queue, orderId) == queue \cup {orderId}

\* The handler answers 401 on a bad signature, and else 202 after enqueueing
\* the order id it can read from the payload.
PostOrdersPaid ==
    /\ web.pc = "listening"
    /\ web.requests < MaxRequests
    /\ \E req \in Requests :
         IF ~verifyShopifySignature(req, web.secret)
         THEN web' = [web EXCEPT !.req = Received(req), !.status = 401, !.enqueued = FALSE,
                                 !.requests = @ + 1]
         ELSE LET orderId == extractOrderId(req.payload)
              IN IF orderId # -1 /\ orderId # 0
                 THEN web' = [web EXCEPT !.req = Received(req), !.status = 202, !.enqueued = TRUE,
                                         !.queue = enqueueOrder(@, orderId),
                                         !.enqueueCalls = @ + 1, !.requests = @ + 1]
                 ELSE web' = [web EXCEPT !.req = Received(req), !.status = 202, !.enqueued = FALSE,
                                         !.requests = @ + 1]
    /\ UNCHANGED <<migVars, calcVars, ss, par, gw, ex>>

\* enqueueOrder throws: the handler answers 500.
PostOrdersPaidEnqueueThrows ==
    /\ web.pc = "listening"
    /\ web.requests < MaxRequests
    /\ \E req \in Requests :
         /\ verifyShopifySignature(req, web.secret)
         /\ extractOrderId(req.payload) \notin {-1, 0}
         /\ web' = [web EXCEPT !.req = Received(req), !.status = 500, !.enqueued = FALSE,
                               !.enqueueCalls = @ + 1, !.requests = @ + 1]
    /\ UNCHANGED <<migVars, calcVars, ss, par, gw, ex>>

----------------------------------------------------------------------------
(* Concurrent deliveries: two workers, each running migrateOrder on the      *)
(* deliveries of its partition against one remote ledger and with the one    *)
(* customer cache of the process.  Every awaited remote call of migrateOrder *)
(* is a step of its own, so the other worker can act between any two calls.  *)

MaxDeliveries == 3

Workers == {1, 2}
PairIds == {1, 2}

\* The e-mails of the customers of the delivered orders.
PairEmails == {"", "kari@x.no"}

\* totals.gross of every delivered order, in ore.
PairGross == 10000

\* PAYMENT_FEE_AMOUNT_ORE of the process.
PairFees == {0, 30}

\* The worker that owns an order key: deliveries are partitioned by order key.
workerOf(id) == (id % 2) + 1

IdleWorker == [pc |-> "idle", id |-> 0, existing |-> 0, saleId |-> 0]

\* The order of a delivery: its id and the e-mail of its customer.
parOrder(id) == [id |-> id, email |-> par.emails[id]]

\* feeAmount and bankPaymentAmount of migrateOrder for a delivered order.
parFee == computeFeeAmount(PairGross, par.feeFixed, 0)
parBank == bankPaymentOf(PairGross, parFee)

\* The first sale of the ledger with the number, 0 for none.
parFirstSale(number) ==
    LET hits == { i \in 1..Len(par.sales) : par.sales[i].saleNumber = number }
    IN IF hits = {} THEN 0 ELSE CHOOSE i \in hits : \A j \in hits : i <= j

\* migrateOrder of worker k returned or threw.
ParEnd(k, result, base) ==
    par' = [base EXCEPT !.w[k] = IdleWorker,
                        !.ended = Append(@, [worker |-> k, id |-> par.w[k].id,
                                              result |-> result])]

ParFrame == UNCHANGED <<migVars, calcVars, ss, web, gw, ex>>

\* A delivery is handed to the worker of its order key.
ParDispatch ==
    /\ par.pc = "on"
    /\ par.inbox # <<>>
    /\ LET id == Head(par.inbox)
       IN par' = [par EXCEPT !.inbox = Tail(@),
                             !.queue[workerOf(id)] = Append(@, id)]
    /\ ParFrame

\* An idle worker takes the next delivery of its queue and starts
\* migrateOrder, which runs up to its first remote call: on a cache hit of
\* getOrCreateCustomer that is the search of the sale.
ParTake ==
    /\ \E k \in Workers :
         /\ par.w[k].pc = "idle"
         /\ par.queue[k] # <<>>
         /\ LET id == Head(par.queue[k])
                first == IF getCustomerKey(parOrder(id)) \in DOMAIN par.cache
                         THEN "findSale"
                         ELSE IF par.emails[id] # "" THEN "getCustomers"
                         ELSE "createCustomer"
            IN par' = [par EXCEPT !.queue[k] = Tail(@),
                                  !.w[k] = [IdleWorker EXCEPT !.pc = first, !.id = id]]
    /\ ParFrame

\* this.fiken.getCustomers answers: the customer is found and cached, or is
\* to be created.
ParGetCustomersOk ==
    /\ \E k \in Workers :
         /\ par.w[k].pc = "getCustomers"
         /\ LET order == parOrder(par.w[k].id)
                hit == findCustomer(par.contacts, order.email)
            IN IF hit # 0
               THEN par' = [par EXCEPT !.cache = (getCustomerKey(order) :> par.contacts[hit]) @@ @,
                                       !.w[k].pc = "findSale"]
               ELSE par' = [par EXCEPT !.w[k].pc = "createCustomer"]
    /\ ParFrame

\* this.fiken.getCustomers throws: logged, the customer is to be created.
ParGetCustomersFail ==
    /\ par.faults < MaxFaults
    /\ \E k \in Workers :
         /\ par.w[k].pc = "getCustomers"
         /\ par' = [par EXCEPT !.faults = @ + 1, !.w[k].pc = "createCustomer"]
    /\ ParFrame

\* this.fiken.createCustomer answers: the contact exists remotely and is cached.
ParCreateCustomerOk ==
    /\ \E k \in Workers :
         /\ par.w[k].pc = "createCustomer"
         /\ LET order == parOrder(par.w[k].id)
                customer == [contactId |-> Len(par.contacts) + 1, email |-> order.email,
                             createdBy |-> [worker |-> k, orderId |-> order.id]]
            IN par' = [par EXCEPT !.contacts = Append(@, customer),
                                  !.cache = (getCustomerKey(order) :> customer) @@ @,
                                  !.w[k].pc = "findSale"]
    /\ ParFrame

\* createCustomer, createSale or addSalePayment throws: migrateOrder throws.
ParStepFail ==
    /\ par.faults < MaxFaults
    /\ \E k \in Workers :
         /\ par.w[k].pc \in {"createCustomer", "createSale", "bankPayment", "feePayment"}
         /\ ParEnd(k, "failed", [par EXCEPT !.faults = @ + 1])
    /\ ParFrame

\* findSaleByNumber answers.
ParFindSaleOk ==
    /\ \E k \in Workers :
         /\ par.w[k].pc = "findSale"
         /\ LET existing == parFirstSale(par.w[k].id)
                next == afterSearch(existing,
                                    IF existing # 0 THEN par.sales[existing].receipt ELSE FALSE)
            IN IF next = "return"
               THEN ParEnd(k, "skipped", par)
               ELSE par' = [par EXCEPT !.w[k].pc = next, !.w[k].existing = existing]
    /\ ParFrame

\* findSaleByNumber: the search throws; the error is caught and null returned.
ParFindSaleFail ==
    /\ par.faults < MaxFaults
    /\ \E k \in Workers :
         /\ par.w[k].pc = "findSale"
         /\ par' = [par EXCEPT !.faults = @ + 1, !.w[k].pc = afterSearch(0, FALSE)]
    /\ ParFrame

\* createSale answers: the sale exists remotely; the fee and the bank payment
\* are computed.
ParCreateSaleOk ==
    /\ \E k \in Workers :
         /\ par.w[k].pc = "createSale"
         /\ par' = [par EXCEPT !.sales = Append(@, [saleNumber |-> par.w[k].id,
                                                     receipt |-> FALSE,
                                                     payments |-> <<>>]),
                               !.w[k].saleId = Len(par.sales) + 1,
                               !.w[k].pc = afterCreate(parBank, parFee)]
    /\ ParFrame

\* addSalePayment on the bank account answers.
ParBankPaymentOk ==
    /\ \E k \in Workers :
         /\ par.w[k].pc = "bankPayment"
         /\ par' = [par EXCEPT !.sales[par.w[k].saleId].payments =
                                    Append(@, Payment("bank", parBank)),
                               !.w[k].pc = afterBank(parFee)]
    /\ ParFrame

\* addSalePayment on the fee account answers.
ParFeePaymentOk ==
    /\ \E k \in Workers :
         /\ par.w[k].pc = "feePayment"
         /\ par' = [par EXCEPT !.sales[par.w[k].saleId].payments =
                                    Append(@, Payment("fee", parFee)),
                               !.w[k].pc = "attach"]
    /\ ParFrame

\* attachFileToSale on the new sale answers or throws (logged).
ParAttach ==
    /\ \E k \in Workers, ok \in BOOLEAN :
         /\ par.w[k].pc = "attach"
         /\ ParEnd(k, "ok", [par EXCEPT !.sales[par.w[k].saleId].receipt = @ \/ ok])
    /\ ParFrame

\* attachFileToSale on the existing sale answers or throws (logged).
ParAttachExisting ==
    /\ \E k \in Workers, ok \in BOOLEAN :
         /\ par.w[k].pc = "attachExisting"
         /\ ParEnd(k, "skipped", [par EXCEPT !.sales[par.w[k].existing].receipt = @ \/ ok])
    /\ ParFrame

----------------------------------------------------------------------------
(* The ledger gateway: FikenAPI.request and FikenAPI.createSale *)

Methods == {"GET", "POST", "PUT", "PATCH", "DELETE"}

\* How a call of the HTTP client fails: without a response (network), or with
\* a response of a 5xx or 4xx status, with or without a body.
GwErrors ==
    { [kind |-> "network", status |-> 0, body |-> FALSE] }
    \cup { [kind |-> "5xx", status |-> st, body |-> b] : st \in {500, 503}, b \in BOOLEAN }
    \cup { [kind |-> "4xx", status |-> st, body |-> b] : st \in {400, 404}, b \in BOOLEAN }

NoError == [kind |-> "none", status |-> 0, body |-> FALSE]

\* Where request() puts its data: config.data for POST, PUT and PATCH,
\* config.params for GET.
sentAs(method, hasData) ==
    IF hasData /\ method \in {"POST", "PUT", "PATCH"} THEN "data"
    ELSE IF hasData /\ method = "GET" THEN "params"
    ELSE "none"

GwCall(op, method, slash, hasData) ==
    [pc |-> "ready", op |-> op, method |-> method, slash |-> slash, hasData |-> hasData,
     sent |-> "none", attempts |-> 0, error |-> NoError, enhanced |-> FALSE, saleId |-> 0]

GwFrame == UNCHANGED <<migVars, calcVars, ss, web, par, ex>>

\* request(): this.client.request answers; response.data is returned.
GwRequestOk ==
    /\ gw.pc = "ready" /\ gw.op = "request"
    /\ gw' = [gw EXCEPT !.pc = "returned", !.attempts = @ + 1,
                        !.sent = sentAs(gw.method, gw.hasData)]
    /\ GwFrame

\* request(): this.client.request throws; the error is logged and thrown again,
\* with the response body in its message when there is one.
GwRequestFail ==
    /\ gw.pc = "ready" /\ gw.op = "request"
    /\ \E e \in GwErrors :
         gw' = [gw EXCEPT !.pc = "thrown", !.attempts = @ + 1,
                          !.sent = sentAs(gw.method, gw.hasData),
                          !.error = e, !.enhanced = e.body]
    /\ GwFrame

\* createSale(): this.client.post answers; saleId is the last segment of the
\* Location header, or null (0) without the header.
GwCreateSaleOk ==
    /\ gw.pc = "ready" /\ gw.op = "createSale"
    /\ \E location \in {0, 7} :
         gw' = [gw EXCEPT !.pc = "returned", !.attempts = @ + 1, !.sent = "data",
                          !.saleId = location]
    /\ GwFrame

\* createSale(): this.client.post throws; the error is logged and thrown again.
GwCreateSaleFail ==
    /\ gw.pc = "ready" /\ gw.op = "createSale"
    /\ \E e \in GwErrors :
         gw' = [gw EXCEPT !.pc = "thrown", !.attempts = @ + 1, !.sent = "data",
                          !.error = e]
    /\ GwFrame

----------------------------------------------------------------------------
(* Idle values of the parts a specification does not run *)

IdleCalc == /\ cIn = [line_items |-> <<>>, shipping_lines |-> <<>>, vatRate |-> 25]
            /\ cOut = [lines |-> <<>>, totals |-> NullTotals]
            /\ cPc = "off"
IdleSingle == ss = [pc |-> "off", productNet |-> 0, feeAmount |-> 0, vatAmount |-> 0,
                    grossAmount |-> 0, bankPaymentAmount |-> 0, payments |-> <<>>,
                    orderFile |-> FALSE, attached |-> FALSE]
IdleWeb == web = [pc |-> "off", secret |-> "", queue |-> {}, enqueueCalls |-> 0,
                  status |-> 0, enqueued |-> FALSE, req |-> NullRequest, requests |-> 0]
IdleExtract == ex = [pc |-> "off", payload |-> NullPayload, orderId |-> -1]
IdleGateway == gw = [GwCall("request", "GET", TRUE, FALSE) EXCEPT !.pc = "off"]
IdlePair == par = [pc |-> "off", inbox |-> <<>>, queue |-> <<<<>>, <<>>>>,
                   w |-> <<IdleWorker, IdleWorker>>, emails |-> [id \in PairIds |-> ""],
                   feeFixed |-> 0, cache |-> <<>>, contacts |-> <<>>, sales |-> <<>>,
                   ended |-> <<>>, faults |-> 0]
IdleMigration ==
    /\ cfg = DefaultConfig
    /\ files = <<>>
    /\ run = 0
    /\ orders = <<>>
    /\ index = 1
    /\ pc = "off"
    /\ loc = NoLoc
    /\ customerCache = <<>>
    /\ contacts = <<>>
    /\ sales = <<>>
    /\ calls = <<>>
    /\ outcomes = <<>>
    /\ faults = 0

----------------------------------------------------------------------------
(* Specification of the batch migration *)

\* The order files and configurations of the model: every list of identity
\* orders under the default configuration, every list of money orders under
\* every configuration, and lists with an unpaid order.
Inputs ==
    { <<DefaultConfig, f>> : f \in SeqsUpTo(IdentityOrders \cup UnpaidOrders, MaxOrders) }
    \cup { <<c, f>> : c \in Configs, f \in SeqsUpTo(MoneyOrders \cup UnpaidOrders, MaxOrders) }

Init ==
    /\ \E in \in Inputs : cfg = in[1] /\ files = in[2]
    /\ run = 1
    /\ orders = <<>>
    /\ index = 1
    /\ pc = "start"
    /\ loc = NoLoc
    /\ customerCache = <<>>
    /\ contacts = <<>>
    /\ sales = <<>>
    /\ calls = <<>>
    /\ outcomes = <<>>
    /\ faults = 0
    /\ IdleCalc /\ IdleSingle /\ IdleWeb /\ IdlePair /\ IdleGateway /\ IdleExtract

Next ==
    \/ LoadOrders
    \/ StartOrder
    \/ GetCustomersOk
    \/ GetCustomersFail
    \/ CreateCustomerOk
    \/ CreateCustomerNoId
    \/ CreateCustomerFail
    \/ FindSaleOk
    \/ FindSaleFail
    \/ AttachExistingOk
    \/ AttachExistingFail
    \/ CreateSaleOk
    \/ CreateSaleFail
    \/ BankPaymentOk
    \/ BankPaymentFail
    \/ FeePaymentOk
    \/ FeePaymentFail
    \/ AttachOk
    \/ AttachFail
    \/ Crash
    \/ EndRun
    \/ NewRun

Spec == Init /\ [][Next]_vars

----------------------------------------------------------------------------
(* Specification of the calculator *)

InitCalc ==
    /\ cIn \in CalcInputs
    /\ cOut = [lines |-> <<>>, totals |-> NullTotals]
    /\ cPc = "input"
    /\ IdleMigration /\ IdleSingle /\ IdleWeb /\ IdlePair /\ IdleGateway /\ IdleExtract

NextCalc == CalcBuildLines \/ CalcTotals

SpecCalc == InitCalc /\ [][NextCalc]_vars

----------------------------------------------------------------------------
(* Specification of the single-sale script *)

InitSingle == SsInit /\ IdleMigration /\ IdleCalc /\ IdleWeb /\ IdlePair /\ IdleGateway
    /\ IdleExtract

NextSingle ==
    \/ SsCreateSaleOk
    \/ SsCallFails
    \/ SsBankPaymentOk
    \/ SsFeePaymentOk
    \/ SsGetSaleOk
    \/ SsAttach

SpecSingle == InitSingle /\ [][NextSingle]_vars

----------------------------------------------------------------------------
(* Specification of the webhook endpoint *)

InitWeb ==
    /\ \E secret \in ServerSecrets :
         web = [pc |-> "listening", secret |-> secret, queue |-> {}, enqueueCalls |-> 0,
                status |-> 0, enqueued |-> FALSE, req |-> NullRequest, requests |-> 0]
    /\ IdleMigration /\ IdleCalc /\ IdleSingle /\ IdlePair /\ IdleGateway /\ IdleExtract

NextWeb == PostOrdersPaid \/ PostOrdersPaidEnqueueThrows

SpecWeb == InitWeb /\ [][NextWeb]_vars

----------------------------------------------------------------------------
(* Specification of the concurrent deliveries *)

InitPair ==
    /\ \E inbox \in SeqsUpTo(PairIds, MaxDeliveries), emails \in [PairIds -> PairEmails],
          feeFixed \in PairFees :
         par = [pc |-> "on", inbox |-> inbox, queue |-> <<<<>>, <<>>>>,
                w |-> <<IdleWorker, IdleWorker>>, emails |-> emails,
                feeFixed |-> feeFixed, cache |-> <<>>, contacts |-> <<>>, sales |-> <<>>,
                ended |-> <<>>, faults |-> 0]
    /\ IdleMigration /\ IdleCalc /\ IdleSingle /\ IdleWeb /\ IdleGateway /\ IdleExtract

NextPair ==
    \/ ParDispatch
    \/ ParTake
    \/ ParGetCustomersOk
    \/ ParGetCustomersFail
    \/ ParCreateCustomerOk
    \/ ParStepFail
    \/ ParFindSaleOk
    \/ ParFindSaleFail
    \/ ParCreateSaleOk
    \/ ParBankPaymentOk
    \/ ParFeePaymentOk
    \/ ParAttach
    \/ ParAttachExisting

SpecPair == InitPair /\ [][NextPair]_vars

----------------------------------------------------------------------------
(* Specification of extractOrderId on its own *)

InitExtract ==
    /\ \E payload \in Payloads :
         ex = [pc |-> "called", payload |-> payload, orderId |-> -1]
    /\ IdleMigration /\ IdleCalc /\ IdleSingle /\ IdleWeb /\ IdlePair /\ IdleGateway

NextExtract == ExtractOrderId

SpecExtract == InitExtract /\ [][NextExtract]_vars

----------------------------------------------------------------------------
(* Specification of the ledger gateway *)

InitGateway ==
    /\ \/ \E m \in Methods, slash \in BOOLEAN, hasData \in BOOLEAN :
            gw = GwCall("request", m, slash, hasData)
       \/ gw = GwCall("createSale", "POST", TRUE, TRUE)
    /\ IdleMigration /\ IdleCalc /\ IdleSingle /\ IdleWeb /\ IdlePair /\ IdleExtract

NextGateway ==
    \/ GwRequestOk
    \/ GwRequestFail
    \/ GwCreateSaleOk
    \/ GwCreateSaleFail

SpecGateway == InitGateway /\ [][NextGateway]_vars

----------------------------------------------------------------------------
(* Helpers of the properties *)

RECURSIVE SumPayments(_)
SumPayments(ps) == IF ps = <<>> THEN 0 ELSE Head(ps).amount + SumPayments(Tail(ps))

\* The sales the remote ledger holds under a sale number.
SalesOf(number) == { i \in 1..Len(sales) : sales[i].saleNumber = number }

\* The gross of a remote sale, from its lines.
SaleGross(i) == SumNet(sales[i].lines) + SumVat(sales[i].lines)

\* The migrateOrder calls that have ended with one of the results, for an order.
Ended(id, number, results) ==
    { i \in 1..Len(outcomes) : /\ outcomes[i].id = id
                               /\ outcomes[i].saleNumber = number
                               /\ outcomes[i].result \in results }

\* Positions of the calls of an operation in the history of the order in progress.
CallsOf(op) == { i \in 1..Len(calls) : calls[i].op = op }

WriteOps == {"createCustomer", "createSale", "bankPayment", "feePayment", "attach"}

\* The migrateOrder call in progress has created its sale and registered its
\* payments.
Settled == loc.saleId # 0 /\ (pc = "attach" \/ CallsOf("attach") # {})

\* The fee of a gross before computeFeeAmount compares it with the gross.
ComputedFee(gross) ==
    cfg.feeFixed + (IF cfg.feePercentQ > 0 THEN MathRound(gross * cfg.feePercentQ, 4) ELSE 0)

----------------------------------------------------------------------------
(* Properties *)

\* C1: an order that migrateOrder has processed to its end twice (not in a dry
\* run) has exactly one sale under its sale number in the remote ledger,
\* whatever the second search answered.
C1_OnePostingAfterTwoRuns ==
    \A o \in IdentityOrders \cup MoneyOrders :
        (~cfg.dryRun /\ Cardinality(Ended(o.id, saleNumberOf(o), {"ok", "skipped"})) >= 2)
            => Cardinality(SalesOf(saleNumberOf(o))) = 1

\* C2: within one migrateOrder call every createSale call comes after a
\* findSaleByNumber call that has returned, and no createSale call is issued
\* when that search returned an existing sale.
C2_SearchBeforeCreate ==
    \A i \in CallsOf("createSale") :
        /\ \E j \in CallsOf("findSale") : j < i
        /\ \A j \in CallsOf("findSale") : calls[j].res # "found"

\* C2 witness: a sale is created after a search that found nothing.
C2_Witness ==
    \E i \in CallsOf("createSale"), j \in CallsOf("findSale") :
        j < i /\ calls[j].res = "notfound" /\ calls[i].res = "ok"

\* C3: once an order whose earlier processing failed or was interrupted has
\* been processed again to its end without a further failure, the ledger holds
\* one sale under its number, with payments that sum to the gross and with the
\* receipt attached.
C3_ResumeCompletesTheSale ==
    \A i, j \in 1..Len(outcomes) :
        ( /\ i < j
          /\ faults = 1
          /\ outcomes[i].result \in {"failed", "interrupted"}
          /\ outcomes[j].result \in {"ok", "skipped"}
          /\ outcomes[j].id = outcomes[i].id
          /\ outcomes[j].saleNumber = outcomes[i].saleNumber )
        => /\ Cardinality(SalesOf(outcomes[j].saleNumber)) = 1
           /\ \A k \in SalesOf(outcomes[j].saleNumber) :
                /\ SumPayments(sales[k].payments) = SaleGross(k)
                /\ outcomes[j].saleNumber \in sales[k].attachments

\* C4: in a dry run no remote write is issued: no contact or sale exists in
\* the ledger and the order in progress has issued no write call.
C4_DryRunWritesNothing ==
    cfg.dryRun => /\ contacts = <<>>
                  /\ sales = <<>>
                  /\ \A i \in 1..Len(calls) : calls[i].op \notin WriteOps

\* The gross of the line built from a product line item: the price in ore
\* times the quantity.
ItemGross(item) == toOre(item.price) * (IF item.quantity = 0 THEN 1 ELSE item.quantity)

RECURSIVE SumItemGross(_)
SumItemGross(items) ==
    IF items = <<>> THEN 0 ELSE ItemGross(Head(items)) + SumItemGross(Tail(items))

RECURSIVE SumOre(_)
SumOre(prices) == IF prices = <<>> THEN 0 ELSE toOre(Head(prices)) + SumOre(Tail(prices))

\* C5: net + vat = gross for every line built by buildSaleLines, and for the
\* totals of calculateTotals, whose gross is the sum of the lines' gross.
C5_NetPlusVatIsGross ==
    LET items == cIn.line_items
        billable == SelectSeq(cIn.shipping_lines, LAMBDA s : toOre(s) > 0)
    IN /\ cPc \in {"lines", "totals"} =>
            /\ Len(cOut.lines) = Len(items) + Len(billable)
            /\ \A i \in 1..Len(items) :
                  cOut.lines[i].netAmount + cOut.lines[i].vatAmount = ItemGross(items[i])
            /\ \A j \in 1..Len(billable) :
                  cOut.lines[Len(items) + j].netAmount + cOut.lines[Len(items) + j].vatAmount
                      = toOre(billable[j])
       /\ cPc = "totals" =>
            /\ cOut.totals.net + cOut.totals.vat = cOut.totals.gross
            /\ cOut.totals.gross = SumItemGross(items) + SumOre(billable)

\* C5 witness: totals of an order with a product line of quantity 3, a
\* shipping line and VAT on every line.
C5_Witness ==
    /\ cPc = "totals"
    /\ cIn.vatRate = 25
    /\ Len(cOut.lines) = 3
    /\ \E i \in 1..Len(cIn.line_items) : cIn.line_items[i].quantity = 3
    /\ \A i \in 1..Len(cOut.lines) : cOut.lines[i].vatAmount > 0

\* C6: when a sale has been created for the order in progress, the gross of
\* its lines is within 2 ore of the order's total_price.
C6_GrossWithinTolerance ==
    (\E i \in CallsOf("createSale") : calls[i].res = "ok" /\ loc.order.total_price.kr >= 0)
        => MathAbs(toOre(loc.order.total_price) - (SumNet(loc.lines) + SumVat(loc.lines))) <= 2

\* C7: when the totals of the built lines disagree with the order's
\* total_price by more than 2 ore, no createSale call is issued and the order
\* does not end as migrated.
C7_MismatchFailsWithoutCreate ==
    ( /\ pc \in AwaitPcs \cup {"loop", "done"}
      /\ loc.lines # <<>>
      /\ loc.order.total_price.kr >= 0
      /\ MathAbs(toOre(loc.order.total_price) - loc.totals.gross) > 2 )
    => /\ CallsOf("createSale") = {}
       /\ \A i \in 1..Len(outcomes) :
            (outcomes[i].run = run /\ outcomes[i].id = loc.order.id
                /\ outcomes[i].saleNumber = loc.saleNumber)
            => outcomes[i].result \notin {"ok"}

\* C8: once the sale of the order in progress is created, a computed fee that
\* is not below the gross is dropped: the fee amount is 0, the bank payment is
\* the gross and every payment registered on the sale is the gross on the bank
\* account; and no sale ever carries a payment that is not positive.
C8_FeeDroppedWhenNotBelowGross ==
    /\ (loc.saleId # 0 /\ ComputedFee(loc.totals.gross) >= loc.totals.gross)
         => /\ loc.feeAmount = 0
            /\ loc.bankPaymentAmount = loc.totals.gross
            /\ \A k \in 1..Len(sales[loc.saleId].payments) :
                  sales[loc.saleId].payments[k] = Payment("bank", loc.totals.gross)
            /\ (Settled /\ loc.totals.gross > 0) => sales[loc.saleId].payments # <<>>
    /\ \A i \in 1..Len(sales) : \A k \in 1..Len(sales[i].payments) :
          sales[i].payments[k].amount > 0

\* C8 witness: a fee of 2.5 times the gross was dropped and the gross was
\* paid to the bank account.
C8_Witness ==
    /\ pc = "attach"
    /\ loc.totals.gross > 0
    /\ ComputedFee(loc.totals.gross) >= loc.totals.gross
    /\ sales[loc.saleId].payments = <<Payment("bank", loc.totals.gross)>>

\* C9: when the single-sale script has settled its sale, the payments it
\* registered sum to the gross of the sale.
C9_SinglePaymentsSumToGross ==
    ss.pc \in {"getSale", "attach", "done"} => SumPayments(ss.payments) = ss.grossAmount

\* C10: a request changes the queue or calls enqueueOrder only if the secret is
\* configured and the signature header is the keyed hash of the raw body; any
\* other request is answered 401 and leaves the queue as it was.
C10_EnqueueOnlyWhenAuthentic ==
    [][ web'.requests = web.requests + 1 =>
          LET authentic == /\ web'.secret # ""
                           /\ web'.req.signature = Hmac(web'.secret, web'.req.rawBody)
          IN /\ (web'.queue # web.queue \/ web'.enqueueCalls # web.enqueueCalls)
                    => authentic
             /\ ~authentic => /\ web'.status = 401
                              /\ web'.queue = web.queue
                              /\ web'.enqueueCalls = web.enqueueCalls ]_vars

\* C10 witness: with an order queued, a request whose signature has the length
\* of a digest but is not the digest of its body was answered 401.
C10_Witness ==
    /\ web.secret # ""
    /\ web.queue # {}
    /\ web.status = 401
    /\ web.req.signature.len = DigestLen
    /\ web.req.signature # Hmac(web.secret, web.req.rawBody)

\* C11: every request whose signature is the keyed hash of its raw body under
\* the configured secret is answered 202, whether or not an order id can be
\* read from the payload and whether or not enqueueOrder succeeds.
C11_ValidSignatureAnswered202 ==
    [][ ( /\ web'.requests = web.requests + 1
          /\ web'.secret # ""
          /\ web'.req.signature = Hmac(web'.secret, web'.req.rawBody) )
        => web'.status = 202 ]_vars

\* The migrateOrder calls of the current run that have ended, in order.
RunOutcomes == SelectSeq(outcomes, LAMBDA o : o.run = run)

\* C12: in a batch run the i-th migrateOrder call that ends is the call for
\* the i-th selected order, whatever the earlier calls ended with, and a run
\* that is not stopped from outside ends only after every selected order has
\* been attempted.
C12_BatchContinuesAfterFailure ==
    /\ \A i \in 1..Len(RunOutcomes) :
          /\ i <= Limit(Len(orders))
          /\ RunOutcomes[i].index = i
          /\ RunOutcomes[i].id = orders[i].id
    /\ ( /\ pc = "done"
         /\ (RunOutcomes = <<>> \/ RunOutcomes[Len(RunOutcomes)].result # "interrupted") )
       => Len(RunOutcomes) = Limit(Len(orders))

\* C12 witness: a run of two orders has ended; the first order failed and the
\* second was migrated.
C12_Witness ==
    /\ pc = "done"
    /\ Len(RunOutcomes) = 2
    /\ RunOutcomes[1].result = "failed"
    /\ RunOutcomes[2].result = "ok"

\* The business key of the counterparty a contact was created for: the
\* lower-cased e-mail, or the order's id when the order has no e-mail.
ContactKey(c) ==
    IF c.email # ""
    THEN [email |-> toLowerCase(c.email), orderId |-> 0]
    ELSE [email |-> "", orderId |-> c.createdBy.orderId]

\* C13: no two contacts created by successful createCustomer calls of one run
\* have the same business key; e-mails that differ only in letter case are
\* one key.
C13_OneCounterpartyPerKeyPerRun ==
    \A i, j \in 1..Len(contacts) :
        (i < j /\ contacts[i].createdBy.run = contacts[j].createdBy.run)
            => ContactKey(contacts[i]) # ContactKey(contacts[j])

\* C13 witness: the second order of a run has an e-mail that differs from the
\* first order's only in letter case; after a failed contact search for the
\* first order its contact was created, and the second order was resolved
\* without a remote call.
C13_Witness ==
    /\ pc = "findSale"
    /\ index = 2
    /\ orders[1].email # orders[2].email
    /\ toLowerCase(orders[1].email) = toLowerCase(orders[2].email)
    /\ calls = <<>>
    /\ Len(contacts) = 1
    /\ contacts[1].createdBy.run = run
    /\ loc.customer = contacts[1]

\* The order in progress has an e-mail that a contact of the ledger has, up to
\* letter case.
ContactExists ==
    \E i \in 1..Len(contacts) :
        contacts[i].email # "" /\ toLowerCase(contacts[i].email) = toLowerCase(loc.order.email)

\* The business key of the counterparty of the order in progress.
OrderKey ==
    IF loc.order.email # ""
    THEN [email |-> toLowerCase(loc.order.email), orderId |-> 0]
    ELSE [email |-> "", orderId |-> loc.order.id]

\* C14 as stated: when the resolver is about to issue createCustomer for an
\* order with an e-mail, the cache has no entry for the key, the contact search
\* has not found a contact with the e-mail, and no such contact exists remotely.
C14_CreateOnlyOnTrueMiss ==
    (pc = "createCustomer" /\ loc.order.email # "")
        => /\ OrderKey \notin DOMAIN customerCache
           /\ Call("getCustomers", "found") \notin { calls[i] : i \in 1..Len(calls) }
           /\ ~ContactExists

\* C14 amended: when the resolver is about to issue createCustomer, the cache
\* has no entry for the key and, for an order with an e-mail, the contact
\* search has either failed or found no contact while none exists; no
\* createCustomer call follows a search that returned the contact.
C14_CreateOnlyWhenNothingReturned ==
    /\ pc = "createCustomer"
         => /\ OrderKey \notin DOMAIN customerCache
            /\ loc.order.email # ""
                 => \/ calls = <<Call("getCustomers", "fail")>>
                    \/ (calls = <<Call("getCustomers", "notfound")>> /\ ~ContactExists)
            /\ loc.order.email = "" => calls = <<>>
    /\ \A i \in CallsOf("createCustomer") :
          \A j \in 1..(i - 1) : calls[j] # Call("getCustomers", "found")

\* C14 witness: with contacts in the ledger, the search for the order's e-mail
\* found none of them and the resolver is about to create the contact.
C14_Witness ==
    /\ pc = "createCustomer"
    /\ contacts # <<>>
    /\ calls = <<Call("getCustomers", "notfound")>>

\* The process was stopped during the migrateOrder call in progress.
Interrupted ==
    pc = "done" /\ outcomes # <<>> /\ outcomes[Len(outcomes)].result = "interrupted"

\* C15: a failed contact search is followed by a createCustomer call, not by
\* the end of the order's processing, and when that create answers, the order's
\* processing goes on to its next step.
C15_SearchFailureProceedsToCreate ==
    \A i \in 1..Len(calls) :
        calls[i] = Call("getCustomers", "fail")
            => /\ i = Len(calls) => (pc = "createCustomer" \/ Interrupted)
               /\ i < Len(calls) => calls[i + 1].op = "createCustomer"
               /\ (Len(calls) = i + 1 /\ calls[i + 1].res = "ok")
                     => \/ pc = "findSale"
                        \/ Interrupted
                        \/ /\ pc \in {"loop", "done"}
                           /\ outcomes[Len(outcomes)].result \in {"dryRun", "noBillableLines"}

\* C15 witness: after a failed contact search the contact was created and the
\* order went on through the search of the sale to the creation of the sale.
C15_Witness ==
    /\ pc = "createSale"
    /\ Len(calls) = 3
    /\ calls[1] = Call("getCustomers", "fail")
    /\ calls[2] = Call("createCustomer", "ok")
    /\ calls[3] = Call("findSale", "notfound")

\* The order in progress was migrated ("ok") by an earlier run.
MigratedBefore ==
    \E k \in 1..Len(outcomes) : /\ outcomes[k].run < run
                                /\ outcomes[k].result = "ok"
                                /\ outcomes[k].id = loc.order.id
                                /\ outcomes[k].saleNumber = loc.saleNumber

\* C16: a migrateOrder call whose createSale answered and whose attach failed
\* ends as migrated; and while the sale of an order migrated by an earlier run
\* is without its receipt, processing the order again issues no createSale
\* call and attempts the attachment.
C16_AttachFailureIsNotFatal ==
    /\ ( /\ calls # <<>>
         /\ calls[Len(calls)] = Call("attach", "fail")
         /\ CallsOf("createSale") # {} )
       => RunOutcomes[Len(RunOutcomes)].result = "ok"
    /\ LET k == firstSale(loc.saleNumber)
       IN ( /\ MigratedBefore
            /\ CallsOf("findSale") # {}
            /\ k # 0
            /\ loc.saleNumber \notin sales[k].attachments )
          => /\ CallsOf("createSale") = {}
             /\ (pc \in {"loop", "done"} /\ ~Interrupted) => CallsOf("attach") # {}

\* The existing sale of the order in progress has the order's receipt.
ExistingHasReceipt == loc.saleNumber \in sales[loc.existingSale].attachments

\* C17: from a search that returned an existing sale on, the migrateOrder call
\* issues no createSale and no payment call; it issues no call at all when the
\* sale has the order's receipt, and exactly one attach call when it has not.
C17_ExistingSaleIsOnlyCompleted ==
    \A j \in CallsOf("findSale") :
        calls[j].res = "found"
            => /\ Len(calls) <= j + 1
               /\ Len(calls) = j + 1 => calls[j + 1].op = "attach"
               /\ pc \notin {"createSale", "bankPayment", "feePayment", "attach"}
               /\ pc = "attachExisting" => (Len(calls) = j /\ ~ExistingHasReceipt)
               /\ (Len(calls) = j + 1 /\ calls[j + 1].res = "fail") => ~ExistingHasReceipt
               /\ (Len(calls) = j /\ pc \in {"loop", "done"} /\ ~Interrupted)
                     => ExistingHasReceipt
               /\ (Len(calls) = j + 1 \/ ~Interrupted) => pc \in {"attachExisting", "loop", "done"}

\* C17 witness: the search returned a sale that has the receipt and the order
\* ended as skipped without a further call.
C17_Witness ==
    /\ pc = "loop"
    /\ calls # <<>>
    /\ calls[Len(calls)] = Call("findSale", "found")
    /\ ExistingHasReceipt
    /\ outcomes[Len(outcomes)].result = "skipped"

\* The place of a remote operation in the order's life cycle: counterparty
\* resolution (contact search, contact create), search of the sale, creation
\* of the sale, bank payment, fee payment, attachment of the receipt.
StepOf(op) ==
    CASE op = "getCustomers" -> 1
      [] op = "createCustomer" -> 2
      [] op = "findSale" -> 3
      [] op = "createSale" -> 4
      [] op = "bankPayment" -> 5
      [] op = "feePayment" -> 6
      [] op = "attach" -> 7

\* C18: the remote calls of one migrateOrder call occur in the order of the
\* life cycle, each at most once, and a failed call of a step before the
\* attachment is the last call for that order.  The contact search is part of
\* the counterparty resolution, which fails when its create fails.
C18_StepsInOrderAndFailureStops ==
    /\ \A i, j \in 1..Len(calls) : i < j => StepOf(calls[i].op) < StepOf(calls[j].op)
    /\ \A i \in 1..Len(calls) :
          (calls[i].res = "fail" /\ calls[i].op \notin {"getCustomers", "attach"})
              => /\ i = Len(calls)
                 /\ pc \in {"loop", "done"}

\* The sales of the ledger of the concurrent deliveries under a number.
ParSalesOf(id) == { i \in 1..Len(par.sales) : par.sales[i].saleNumber = id }

\* The deliveries of an order key that ended with a result.
ParEnded(id, result) ==
    { i \in 1..Len(par.ended) : par.ended[i].id = id /\ par.ended[i].result = result }

\* C19: of the deliveries of one order identifier handed to the workers, at
\* most one creates a sale, so the ledger holds at most one sale for the key.
C19_OneCreatePerOrderKey ==
    \A id \in PairIds :
        /\ Cardinality(ParSalesOf(id)) <= 1
        /\ Cardinality(ParEnded(id, "ok")) <= 1

\* C20: a gateway call that throws after a transient error (no response, or a
\* 5xx status) was attempted more than once, and a call that throws after a
\* 4xx status was attempted exactly once.
C20_TransientErrorsAreRetried ==
    gw.pc = "thrown"
        => /\ gw.error.kind \in {"network", "5xx"} => gw.attempts > 1
           /\ gw.error.kind = "4xx" => gw.attempts = 1

\* C21: with a limit L > 0 a batch run attempts exactly min(L, n) orders, the
\* first ones in file order of the n paid order files, and with no limit it
\* attempts all n: the i-th call of the run is for the i-th paid file, never
\* more than that many calls are made, and a run that is not stopped from
\* outside ends after exactly that many.
C21_LimitBoundsTheRun ==
    LET paidFiles == SelectSeq(files, LAMBDA f : f.financial_status = "paid")
        n == Len(paidFiles)
        attempts == IF cfg.limit > 0 /\ cfg.limit < n THEN cfg.limit ELSE n
    IN /\ Len(RunOutcomes) <= attempts
       /\ \A i \in 1..Len(RunOutcomes) :
             /\ RunOutcomes[i].index = i
             /\ RunOutcomes[i].id = paidFiles[i].id
       /\ ( /\ pc = "done"
            /\ (RunOutcomes = <<>> \/ RunOutcomes[Len(RunOutcomes)].result # "interrupted") )
          => Len(RunOutcomes) = attempts

\* C21 witness: a run with limit 1 over two paid orders has ended after
\* migrating the first order only.
C21_Witness ==
    /\ pc = "done"
    /\ cfg.limit = 1
    /\ Len(loadShopifyOrders(files)) = 2
    /\ Len(RunOutcomes) = 1
    /\ RunOutcomes[1].result = "ok"
    /\ RunOutcomes[1].id = files[1].id

\* The ids of the order files that are not paid.
UnpaidIds == { files[i].id : i \in { j \in 1..Len(files) : files[j].financial_status # "paid" } }

\* C22: only paid orders enter migrateOrder, and nothing is written for an
\* order that is not paid: the order in progress is paid, no call of
\* migrateOrder ended for an unpaid order, and no posting (with its payments
\* and attachments) and no contact was created by one.
C22_OnlyPaidOrdersAreMigrated ==
    /\ loc.order # NullOrder => loc.order.financial_status = "paid"
    /\ \A i \in 1..Len(orders) : orders[i].financial_status = "paid"
    /\ \A i \in 1..Len(outcomes) : outcomes[i].id \notin UnpaidIds
    /\ \A i \in 1..Len(sales) : sales[i].orderId \notin UnpaidIds
    /\ \A i \in 1..Len(contacts) : contacts[i].createdBy.orderId \notin UnpaidIds

\* C22 witness: the files hold an unpaid order before a paid one; the run has
\* ended with one call of migrateOrder, for the paid order, whose posting was
\* created, paid and attached.
C22_Witness ==
    /\ pc = "done"
    /\ Len(files) = 2
    /\ files[1].financial_status = "pending"
    /\ files[2].financial_status = "paid"
    /\ Len(outcomes) = 1
    /\ outcomes[1].id = files[2].id
    /\ outcomes[1].result = "ok"
    /\ Len(sales) = 1
    /\ sales[1].payments # <<>>
    /\ sales[1].attachments # {}

\* The remote calls of migrateOrder on the posting: its search, its creation,
\* its payments and its attachment.
PostingOps == {"findSale", "createSale", "bankPayment", "feePayment", "attach"}

\* C23: an order that yields zero lines fails with the no-billable-lines
\* error once its customer is resolved, and no posting search, posting create,
\* payment or attachment call is issued for it.
C23_NoLinesFailsBeforeAnyPostingCall ==
    (loc.order # NullOrder /\ buildSaleLines(loc.order, cfg.vatRate) = <<>>)
    => /\ pc \notin {"findSale", "createSale", "bankPayment", "feePayment",
                     "attach", "attachExisting"}
       /\ \A i \in 1..Len(calls) : calls[i].op \notin PostingOps
       /\ \A i \in 1..Len(sales) :
             sales[i].orderId = loc.order.id => sales[i].lines # <<>>
       /\ loc.customer.contactId # 0
             => /\ pc \in {"loop", "done"}
                /\ outcomes[Len(outcomes)].id = loc.order.id
                /\ outcomes[Len(outcomes)].result = "noBillableLines"

\* C23 witness: an order without items and with free shipping has failed with
\* the no-billable-lines error after its customer was created; nothing was
\* posted.
C23_Witness ==
    /\ pc = "loop"
    /\ loc.order.line_items = <<>>
    /\ loc.order.shipping_lines # <<>>
    /\ calls = <<Call("getCustomers", "notfound"), Call("createCustomer", "ok")>>
    /\ outcomes[Len(outcomes)].result = "noBillableLines"
    /\ sales = <<>>

\* C24: for every product line with unit price p and quantity q >= 1 the
\* line's gross is G = round(p * 100) * q, its net is round(G / (1 + vatRate)),
\* rounded once on the line gross, and its vat is G - net.
C24_NetRoundedOnLineGross ==
    cPc \in {"lines", "totals"} =>
        \A i \in 1..Len(cIn.line_items) :
            LET p == cIn.line_items[i].price
                q == cIn.line_items[i].quantity
                G == toOre(p) * q
                net == MathRound(G * 100, 100 + cIn.vatRate)
            IN q >= 1 => /\ cOut.lines[i].netAmount + cOut.lines[i].vatAmount = G
                         /\ cOut.lines[i].netAmount = net
                         /\ cOut.lines[i].vatAmount = G - net

\* C25: the lines built for the order in progress are one line per product
\* line item followed by one line per shipping line whose price is greater
\* than zero, so that no zero-price shipping line yields a line; and no line
\* of a posting has a zero amount (net and VAT both 0).
C25_OneLinePerItemAndNoZeroLine ==
    /\ loc.lines # <<>> =>
          LET items == loc.order.line_items
              charged == SelectSeq(loc.order.shipping_lines, LAMBDA s : toOre(s) > 0)
          IN /\ Len(loc.lines) = Len(items) + Len(charged)
             /\ \A i \in 1..Len(items) : loc.lines[i].account = "sales"
             /\ \A j \in 1..Len(charged) :
                   /\ loc.lines[Len(items) + j].account = "shipping"
                   /\ loc.lines[Len(items) + j].netAmount + loc.lines[Len(items) + j].vatAmount
                         = toOre(charged[j])
    /\ \A i \in 1..Len(sales) : \A k \in 1..Len(sales[i].lines) :
          sales[i].lines[k].netAmount # 0 \/ sales[i].lines[k].vatAmount # 0

\* The payload shapes in the order of the claim: direct id, order_id, nested
\* order.id, typed global identifier string.
ShapesOf(payload) ==
    <<payload.id, payload.order_id, payload.order, payload.admin_graphql_api_id>>

\* The least element of a non-empty set of positions.
First(S) == CHOOSE i \in S : \A j \in S : i <= j

\* C26 as stated: extractOrderId returns the number of the first shape, in
\* the order id, order_id, order.id, global identifier, that is present and
\* yields a number, and null (-1) when no shape does.
C26_FirstPresentShapeWins ==
    ex.pc = "returned" =>
        LET shapes == ShapesOf(ex.payload)
            hits == { i \in 1..4 : shapes[i].kind # "absent" /\ shapes[i].kind \in {"num", "digits"} }
        IN ex.orderId = IF hits = {} THEN -1 ELSE shapes[First(hits)].n

\* C26 amended: extractOrderId returns the number of the first shape, in the
\* order id, order_id, order.id, global identifier, whose value is truthy
\* (not missing, not the number 0, not the empty string) and yields a number,
\* and null (-1) when no shape does.
C26_FirstTruthyShapeWins ==
    ex.pc = "returned" =>
        LET shapes == ShapesOf(ex.payload)
            hits == { i \in 1..4 : /\ shapes[i].kind \in {"num", "digits"}
                                   /\ ~(shapes[i].kind = "num" /\ shapes[i].n = 0) }
        IN ex.orderId = IF hits = {} THEN -1 ELSE shapes[First(hits)].n

\* C26 witness: the payload has no direct id and no order_id; the nested
\* order.id and the global identifier both yield a number, and the number of
\* the nested order.id was returned.
C26_Witness ==
    /\ ex.pc = "returned"
    /\ ex.payload.id = Absent
    /\ ex.payload.order_id = Absent
    /\ ex.payload.order = Num(3)
    /\ ex.payload.admin_graphql_api_id = Digits(4)
    /\ ex.orderId = 3

\* C27: the totals re-derived from the lines of the posting that the
\* migrateOrder call in progress created are exactly the net, vat and gross
\* of the breakdown its payload was built from, line for line.
C27_PostingLinesGiveBackTheTotals ==
    loc.saleId # 0 =>
        LET posted == sales[loc.saleId].lines
        IN /\ Len(posted) = Len(loc.lines)
           /\ \A k \in 1..Len(posted) :
                 /\ posted[k].netAmount = loc.lines[k].netAmount
                 /\ posted[k].vatAmount = loc.lines[k].vatAmount
           /\ calculateTotals(posted).net = loc.totals.net
           /\ calculateTotals(posted).vat = loc.totals.vat
           /\ calculateTotals(posted).gross = loc.totals.gross

\* C27 witness: a posting with a product line and a shipping line, both with
\* VAT, was created and its lines give back the totals of the breakdown.
C27_Witness ==
    /\ loc.saleId # 0
    /\ Len(sales[loc.saleId].lines) = 2
    /\ loc.totals.vat > 0
    /\ loc.totals.net > 0
    /\ calculateTotals(sales[loc.saleId].lines) = loc.totals

\* C28: the payment fee computed for the order whose sale was created is
\* round(net * feePercent / 100) + fixed fee, with feePercent a percentage
\* (feePercentQ quarters of a percent) and net the order's net amount; a fee
\* that is not below the gross may be dropped to 0.
C28_FeeIsPercentOfNet ==
    loc.saleId # 0 =>
        LET fee == MathRound(loc.totals.net * cfg.feePercentQ, 400) + cfg.feeFixed
        IN \/ loc.feeAmount = fee
           \/ fee >= loc.totals.gross /\ loc.feeAmount = 0

\* C29: every entry of the run's customer cache carries a remote identifier,
\* and a createCustomer call that returned no identifier, or that failed,
\* leaves the cache without an entry for the key of the order in progress.
C29_CacheHoldsOnlyIdentifiedCustomers ==
    /\ \A key \in DOMAIN customerCache : customerCache[key].contactId # 0
    /\ \A i \in 1..Len(calls) :
          (calls[i].op = "createCustomer" /\ calls[i].res \in {"noid", "fail"})
              => getCustomerKey(loc.order) \notin DOMAIN customerCache

\* C30: two orders with different identifiers never get the same sale number,
\* so the search of the sale of one order never returns the posting of
\* another order, and no two postings of different orders carry one number.
C30_SaleNumberIdentifiesTheOrder ==
    /\ loc.existingSale # 0 => sales[loc.existingSale].orderId = loc.order.id
    /\ \A a, b \in 1..Len(sales) :
          sales[a].orderId # sales[b].orderId => sales[a].saleNumber # sales[b].saleNumber

====
